---- MODULE Spec2Model ----
(***************************************************************************)
(* A model of guess.py: the pinyin decomposition of a character            *)
(* (get_pronunciations), the constraint matcher (word_matches) and the     *)
(* GUI handlers that build a request and filter the loaded dictionaries    *)
(* (GuessGameGUI).                                                         *)
(*                                                                         *)
(* A Python str is modelled as a sequence of one-character strings, so     *)
(* that prefixes, suffixes and indexing are computed as the code computes  *)
(* them.  A Chinese character is one symbol, named after its main reading. *)
(***************************************************************************)
EXTENDS Integers, Sequences, FiniteSets, TLC

VARIABLES
    \* get_pronunciations
    py_list,      \* the transcriptions pinyin() returned for the character
    pending,      \* set(py_list) not yet visited by the for loop
    visited,      \* the transcriptions in the order the loop visited them
    results,      \* the list being built
    pc,           \* "loop" while iterating, "returned" after return results
    \* the request: the arguments of word_matches after the word
    specific_reqs,
    ambiguous_reqs,
    exclude_reqs,
    exact_char_reqs,
    ambiguous_chars,
    non_exist_chars,
    matched,      \* what word_matches gave for each word it was called on
    \* the filtering part of search_words
    words,        \* the (word, dictionary name) pairs that were loaded
    length,       \* the target length
    found,        \* what the filtering gave: outcome, results, passed
    \* GuessGameGUI
    dict_vars,            \* the check box of each dictionary file
    length_entry,         \* the text of the word-length entry
    position_inputs,      \* one row of four entries per generated position
    aggregate_entries,    \* the eight entries below the rows, by name
    result_text,          \* what the result area shows
    messagebox,           \* the error dialog the last handler showed
    raised,               \* the exception that escaped the last handler
    last_call             \* the handler that ran last

decompVars == <<py_list, pending, visited, results, pc>>

reqVars == <<specific_reqs, ambiguous_reqs, exclude_reqs, exact_char_reqs,
             ambiguous_chars, non_exist_chars>>

matchVars == <<matched>>

filterVars == <<words, length, found>>

guiVars == <<dict_vars, length_entry, position_inputs, aggregate_entries,
             result_text, messagebox, raised, last_call>>

vars == <<decompVars, reqVars, matchVars, filterVars, guiVars>>

(***************************************************************************)
(* Bounds                                                                  *)
(***************************************************************************)
\* longest transcription handed to the decomposition on its own
MaxPyLen == 3
\* longest word, and so the number of positions a request can speak of
MaxWordLen == 2
\* most constraints a request is built of
MaxConstraints == 2
\* most entries of a loaded word list
MaxWords == 2
\* most entries of the form that hold text at the same time
MaxFilled == 2

(***************************************************************************)
(* Strings                                                                 *)
(***************************************************************************)
Range(s) == {s[k] : k \in 1..Len(s)}

\* str.startswith
StartsWith(s, prefix) ==
    /\ Len(prefix) <= Len(s)
    /\ SubSeq(s, 1, Len(prefix)) = prefix

\* all strings of length 0..n over an alphabet
StringsUpTo(alphabet, n) == UNION {[1..k -> alphabet] : k \in 0..n}

(***************************************************************************)
(* get_pronunciations                                                      *)
(***************************************************************************)
\* a plausible slip: the list in alphabetical order, z before zh
initials_list_alphabetical ==
    << <<"b">>, <<"c">>, <<"c","h">>, <<"d">>, <<"f">>, <<"g">>, <<"h">>,
       <<"j">>, <<"k">>, <<"l">>, <<"m">>, <<"n">>, <<"p">>, <<"q">>,
       <<"r">>, <<"s">>, <<"s","h">>, <<"t">>, <<"w">>, <<"x">>, <<"y">>,
       <<"z">>, <<"z","h">> >>

initials_list ==
    << <<"z","h">>, <<"c","h">>, <<"s","h">>, <<"b">>, <<"p">>, <<"m">>,
       <<"f">>, <<"d">>, <<"t">>, <<"n">>, <<"l">>, <<"g">>, <<"k">>,
       <<"h">>, <<"j">>, <<"q">>, <<"x">>, <<"r">>, <<"z">>, <<"c">>,
       <<"s">>, <<"y">>, <<"w">> >>

ToneDigits == {"1", "2", "3", "4", "5"}

\* lines 20-25: a trailing tone digit is split off (py is not empty here)
tone_of(py) == IF py[Len(py)] \in ToneDigits THEN <<py[Len(py)]>> ELSE <<>>

syllable_of(py) ==
    IF py[Len(py)] \in ToneDigits THEN SubSeq(py, 1, Len(py) - 1) ELSE py

\* lines 26-30: the first entry of initials_list, from index k on, that the
\* syllable starts with; the empty string when the loop ends without a break
RECURSIVE match_initial(_, _)
match_initial(syllable, k) ==
    IF k > Len(initials_list) THEN <<>>
    ELSE IF StartsWith(syllable, initials_list[k]) THEN initials_list[k]
    ELSE match_initial(syllable, k + 1)

\* lines 20-32: the dictionary appended for one non-empty transcription
decompose(py) ==
    LET syllable == syllable_of(py)
        initial  == match_initial(syllable, 1)
    IN  [initial |-> initial,
         final   |-> SubSeq(syllable, Len(initial) + 1, Len(syllable)),
         tone    |-> tone_of(py)]

\* line 12: a sample of what pypinyin answers for a character (TONE3,
\* heteronym=True): two heteronyms, one with a neutral reading, a character
\* of one reading and one whose readings have no vowel.  A character outside
\* its tables is answered by the character itself.
Hanzi == {"zhong", "de", "rong", "en"}

pinyin(ch) ==
    CASE ch = "zhong" -> << <<"z","h","o","n","g","4">>, <<"c","h","o","n","g","2">> >>
      [] ch = "de"    -> << <<"d","e">>, <<"d","i","4">> >>
      [] ch = "rong"  -> << <<"r","o","n","g","2">> >>
      [] ch = "en"    -> << <<"n","2">>, <<"n","g","4">> >>
      [] OTHER        -> << <<ch>> >>

\* the transcription lists the decomposition is run on: those of the sample
\* characters, and every single string over a small alphabet
PyAlphabet == {"z", "h", "a", "2"}

PyLists ==
    {pinyin(ch) : ch \in Hanzi}
        \cup {<<py>> : py \in StringsUpTo(PyAlphabet, MaxPyLen)}

DecompInit ==
    /\ py_list \in PyLists
    /\ pending = Range(py_list)
    /\ visited = <<>>
    /\ results = <<>>
    /\ pc = "loop"
    /\ matched = <<>>
    /\ specific_reqs = <<>> /\ ambiguous_reqs = <<>> /\ exclude_reqs = <<>>
    /\ exact_char_reqs = <<>> /\ ambiguous_chars = {} /\ non_exist_chars = {}
    /\ words = <<>> /\ length = 0
    /\ found = [outcome |-> "none", results |-> <<>>, passed |-> <<>>]
    /\ dict_vars = <<>> /\ length_entry = <<>> /\ position_inputs = <<>>
    /\ aggregate_entries = <<>> /\ result_text = <<>>
    /\ messagebox = "none" /\ raised = "none" /\ last_call = "none"

\* lines 17-32: one iteration of `for py in set(py_list)`; a set is visited
\* in no particular order
DecomposeNext ==
    /\ pc = "loop"
    /\ \E py \in pending :
        /\ pending' = pending \ {py}
        /\ visited' = Append(visited, py)
        /\ results' = IF py = <<>> THEN results
                      ELSE Append(results, decompose(py))
    /\ UNCHANGED <<py_list, pc, reqVars, matchVars, filterVars, guiVars>>

\* line 33
DecomposeReturn ==
    /\ pc = "loop"
    /\ pending = {}
    /\ pc' = "returned"
    /\ UNCHANGED <<py_list, pending, visited, results>>
    /\ UNCHANGED <<reqVars, matchVars, filterVars, guiVars>>

DecompNext == DecomposeNext \/ DecomposeReturn

(***************************************************************************)
(* word_matches                                                            *)
(***************************************************************************)
RECURSIVE SeqOfSet(_)
\* the elements of a set in the order an iteration happens to visit them
SeqOfSet(S) ==
    IF S = {} THEN <<>>
    ELSE LET e == CHOOSE x \in S : TRUE IN <<e>> \o SeqOfSet(S \ {e})

\* lines 12-33 as one call: the list returned for a character
get_pronunciations(ch) ==
    LET pys == SelectSeq(SeqOfSet(Range(pinyin(ch))), LAMBDA py : py # <<>>)
    IN  [k \in 1..Len(pys) |-> decompose(pys[k])]

Fields == {"initial", "final", "tone"}

\* the request a caller passes, as one value
Request(spec, amb, exc, exact, ambc, nonc) ==
    [specific_reqs   |-> spec,
     ambiguous_reqs  |-> amb,
     exclude_reqs    |-> exc,
     exact_char_reqs |-> exact,
     ambiguous_chars |-> ambc,
     non_exist_chars |-> nonc]

\* dict.get(key, set())
GetSet(d, key) == IF key \in DOMAIN d THEN d[key] ELSE {}

Min(S) == CHOOSE x \in S : \A y \in S : x <= y

\* lines 48-50: the fixed characters, visited in the order search_words
\* inserts them (ascending position); word[i] raises IndexError past the end
RECURSIVE exact_check(_, _, _)
exact_check(w, exact, keys) ==
    IF keys = {} THEN "ok"
    ELSE LET i == Min(keys) IN
         IF i >= Len(w) THEN "IndexError"
         ELSE IF w[i + 1] # exact[i] THEN "mismatch"
         ELSE exact_check(w, exact, keys \ {i})

\* lines 59-66: `req.get(f) and p[f] != req[f]` for the three fields; an
\* absent field and an empty string are both falsy
pattern_ok(p, req) ==
    /\ ~("initial" \in DOMAIN req /\ req["initial"] # <<>>
            /\ p.initial # req["initial"])
    /\ ~("final" \in DOMAIN req /\ req["final"] # <<>>
            /\ p.final # req["final"])
    /\ ~("tone" \in DOMAIN req /\ req["tone"] # <<>>
            /\ p.tone # req["tone"])

\* lines 54-68: the candidate readings of position i (0-based)
candidates(w, spec, i) ==
    LET poss == get_pronunciations(w[i + 1]) IN
    IF i \in DOMAIN spec
    THEN SelectSeq(poss, LAMBDA p : pattern_ok(p, spec[i]))
    ELSE poss

\* lines 52-71: the list possibilities, were no position empty
possibilities(w, spec) == [k \in 1..Len(w) |-> candidates(w, spec, k - 1)]

\* a slip: the final is not looked up in the exclude sets
excluded_no_final(p, exc) ==
    \/ "initial" \in DOMAIN exc /\ p.initial \in exc["initial"]
    \/ "tone" \in DOMAIN exc /\ p.tone \in exc["tone"]

\* lines 91-96: the reading carries an excluded value
excluded(p, exc) ==
    \/ "initial" \in DOMAIN exc /\ p.initial \in exc["initial"]
    \/ "final" \in DOMAIN exc /\ p.final \in exc["final"]
    \/ "tone" \in DOMAIN exc /\ p.tone \in exc["tone"]

\* lines 77-89: the must-exist values against a complete assignment
aggregate_ok(chosen, amb) ==
    LET initials == {chosen[k].initial : k \in 1..Len(chosen)}
        finals   == {chosen[k].final : k \in 1..Len(chosen)}
        tones    == {chosen[k].tone : k \in 1..Len(chosen)}
    IN  /\ \A param \in GetSet(amb, "initial") : param \in initials
        /\ \A param \in GetSet(amb, "final") : param \in finals
        /\ \A param \in GetSet(amb, "tone") : param \in tones

\* a slip: the search gives up after the first assignment it completes
RECURSIVE first_assignment(_, _, _, _, _, _)
first_assignment(poss, amb, exc, chosen, i, k) ==
    IF i = Len(poss) THEN aggregate_ok(chosen, amb)
    ELSE IF k > Len(poss[i + 1]) THEN FALSE
    ELSE LET p == poss[i + 1][k] IN
         IF excluded(p, exc)
         THEN first_assignment(poss, amb, exc, chosen, i, k + 1)
         ELSE first_assignment(poss, amb, exc,
                               [chosen EXCEPT ![i + 1] = p], i + 1, 1)

\* lines 75-100: backtrack(i), with the loop over possibilities[i] resumed
\* at its k-th element; chosen is the list the closure writes into
RECURSIVE backtrack_from(_, _, _, _, _, _)
backtrack_from(poss, amb, exc, chosen, i, k) ==
    IF i = Len(poss) THEN aggregate_ok(chosen, amb)
    ELSE IF k > Len(poss[i + 1]) THEN FALSE
    ELSE LET p == poss[i + 1][k] IN
         IF excluded(p, exc)
         THEN backtrack_from(poss, amb, exc, chosen, i, k + 1)
         ELSE \/ backtrack_from(poss, amb, exc,
                                [chosen EXCEPT ![i + 1] = p], i + 1, 1)
              \/ backtrack_from(poss, amb, exc, chosen, i, k + 1)

\* None, the value of a slot of chosen not yet written
NoReading == [initial |-> <<"None">>, final |-> <<"None">>, tone |-> <<"None">>]

\* lines 74, 102: chosen = [None] * n; backtrack(0)
backtrack(poss, amb, exc) ==
    backtrack_from(poss, amb, exc, [k \in 1..Len(poss) |-> NoReading], 0, 1)

\* lines 52-103: the phonetic part of word_matches
phonetic_ok(w, req) ==
    LET poss == possibilities(w, req.specific_reqs) IN
    /\ \A k \in 1..Len(poss) : poss[k] # <<>>
    /\ backtrack(poss, req.ambiguous_reqs, req.exclude_reqs)

\* a slip: one of the listed characters is enough
must_contain_any(w, ambc) == ambc = {} \/ \E char \in ambc : char \in Range(w)

\* lines 106-108
must_contain_ok(w, ambc) == \A char \in ambc : char \in Range(w)

\* lines 111-113
must_exclude_ok(w, nonc) == \A char \in nonc : char \notin Range(w)

\* lines 35-115: "True", "False", or "IndexError" when word[i] raises
word_matches(w, req) ==
    LET ex == exact_check(w, req.exact_char_reqs, DOMAIN req.exact_char_reqs)
    IN  IF ex = "IndexError" THEN "IndexError"
        ELSE IF ex = "mismatch" THEN "False"
        ELSE IF ~phonetic_ok(w, req) THEN "False"
        ELSE IF ~must_contain_ok(w, req.ambiguous_chars) THEN "False"
        ELSE IF ~must_exclude_ok(w, req.non_exist_chars) THEN "False"
        ELSE "True"

(***************************************************************************)
(* The filtering of search_words                                           *)
(***************************************************************************)
\* a slip: shorter words are kept too
length_filter_at_most(ws, len) == SelectSeq(ws, LAMBDA e : Len(e[1]) <= len)

\* line 282
length_filter(ws, len) == SelectSeq(ws, LAMBDA e : Len(e[1]) = len)

\* a slip: a pair already in results is not appended again
append_result_once(res, e) == IF e \in Range(res) THEN res ELSE Append(res, e)

\* line 336
append_result(res, e) == Append(res, e)

\* lines 333-336 from the k-th retained pair on; acc holds the results so
\* far and the words handed to word_matches so far.  An IndexError raised
\* by word_matches ends the handler.
RECURSIVE match_loop(_, _, _, _)
match_loop(ws, req, k, acc) ==
    IF k > Len(ws) THEN acc
    ELSE LET w == ws[k][1]
             m == word_matches(w, req)
             passed == Append(acc.passed, w)
         IN  IF m = "IndexError"
             THEN [outcome |-> "IndexError", results |-> acc.results,
                   passed |-> passed]
             ELSE match_loop(ws, req, k + 1,
                     [outcome |-> "ok",
                      results |-> IF m = "True"
                                  THEN append_result(acc.results, ws[k])
                                  ELSE acc.results,
                      passed  |-> passed])

\* lines 282, 333-336
filter_words(ws, len, req) ==
    match_loop(length_filter(ws, len), req, 1,
               [outcome |-> "ok", results |-> <<>>, passed |-> <<>>])

NotRun == [outcome |-> "none", results |-> <<>>, passed |-> <<>>]

(***************************************************************************)
(* Requests and words the matcher is run on                                *)
(***************************************************************************)
Chars == {"zhong", "de"}
Words == UNION {[1..n -> Chars] : n \in 0..MaxWordLen}
Positions == 0..(MaxWordLen - 1)

InitialPool == {<<"z","h">>, <<"c","h">>}
FinalPool == {<<"o","n","g">>}
TonePool == {<<>>, <<"2">>}
FieldPool(f) ==
    CASE f = "initial" -> InitialPool
      [] f = "final"   -> FinalPool
      [] f = "tone"    -> TonePool

Req == Request(specific_reqs, ambiguous_reqs, exclude_reqs, exact_char_reqs,
               ambiguous_chars, non_exist_chars)

\* the pattern a request holds for position i, empty when it holds none
PatternAt(spec, i) == IF i \in DOMAIN spec THEN spec[i] ELSE <<>>

RECURSIVE SumOver(_, _)
SumOver(f, keys) ==
    IF keys = {} THEN 0
    ELSE LET k == CHOOSE x \in keys : TRUE
         IN  Cardinality(f[k]) + SumOver(f, keys \ {k})

\* the number of constraints a request holds
NumConstraints(req) ==
    SumOver([i \in DOMAIN req.specific_reqs |-> DOMAIN req.specific_reqs[i]],
            DOMAIN req.specific_reqs)
      + SumOver(req.ambiguous_reqs, DOMAIN req.ambiguous_reqs)
      + SumOver(req.exclude_reqs, DOMAIN req.exclude_reqs)
      + Cardinality(DOMAIN req.exact_char_reqs)
      + Cardinality(req.ambiguous_chars)
      + Cardinality(req.non_exist_chars)

EmptyRequest == Request(<<>>, <<>>, <<>>, <<>>, {}, {})

\* the requests the filtering alone is run on: none, or one constraint (a
\* fixed character, a must-exclude value, a must-contain character)
FilterRequests ==
    {EmptyRequest}
    \cup {Request(<<>>, <<>>, <<>>, (i :> c), {}, {}) :
            i \in Positions, c \in Chars}
    \cup {Request(<<>>, <<>>, (f :> {v}), <<>>, {}, {}) :
            f \in {"initial"}, v \in InitialPool}
    \cup {Request(<<>>, <<>>, (f :> {v}), <<>>, {}, {}) :
            f \in {"final"}, v \in FinalPool}
    \cup {Request(<<>>, <<>>, (f :> {v}), <<>>, {}, {}) :
            f \in {"tone"}, v \in TonePool}
    \cup {Request(<<>>, <<>>, <<>>, <<>>, {c}, {}) : c \in Chars}

IsRequest(req) ==
    /\ specific_reqs = req.specific_reqs
    /\ ambiguous_reqs = req.ambiguous_reqs
    /\ exclude_reqs = req.exclude_reqs
    /\ exact_char_reqs = req.exact_char_reqs
    /\ ambiguous_chars = req.ambiguous_chars
    /\ non_exist_chars = req.non_exist_chars

\* one more field in the pattern of position i
AddSpecificReq ==
    /\ \E i \in Positions, f \in Fields :
        /\ f \notin DOMAIN PatternAt(specific_reqs, i)
        /\ \E v \in FieldPool(f) :
            specific_reqs' =
                (i :> ((f :> v) @@ PatternAt(specific_reqs, i)))
                    @@ specific_reqs
    /\ UNCHANGED <<ambiguous_reqs, exclude_reqs, exact_char_reqs,
                   ambiguous_chars, non_exist_chars>>

\* one more must-exist value
AddAmbiguousReq ==
    /\ \E f \in Fields : \E v \in FieldPool(f) \ GetSet(ambiguous_reqs, f) :
        ambiguous_reqs' =
            (f :> (GetSet(ambiguous_reqs, f) \cup {v})) @@ ambiguous_reqs
    /\ UNCHANGED <<specific_reqs, exclude_reqs, exact_char_reqs,
                   ambiguous_chars, non_exist_chars>>

\* one more must-exclude value
AddExcludeReq ==
    /\ \E f \in Fields : \E v \in FieldPool(f) \ GetSet(exclude_reqs, f) :
        exclude_reqs' =
            (f :> (GetSet(exclude_reqs, f) \cup {v})) @@ exclude_reqs
    /\ UNCHANGED <<specific_reqs, ambiguous_reqs, exact_char_reqs,
                   ambiguous_chars, non_exist_chars>>

\* one more fixed character
AddExactCharReq ==
    /\ \E i \in Positions \ DOMAIN exact_char_reqs, c \in Chars :
        exact_char_reqs' = (i :> c) @@ exact_char_reqs
    /\ UNCHANGED <<specific_reqs, ambiguous_reqs, exclude_reqs,
                   ambiguous_chars, non_exist_chars>>

\* one more must-contain character
AddAmbiguousCharReq ==
    /\ \E c \in Chars \ ambiguous_chars :
        ambiguous_chars' = ambiguous_chars \cup {c}
    /\ UNCHANGED <<specific_reqs, ambiguous_reqs, exclude_reqs,
                   exact_char_reqs, non_exist_chars>>

\* one more must-exclude character
AddNonExistCharReq ==
    /\ \E c \in Chars \ non_exist_chars :
        non_exist_chars' = non_exist_chars \cup {c}
    /\ UNCHANGED <<specific_reqs, ambiguous_reqs, exclude_reqs,
                   exact_char_reqs, ambiguous_chars>>

\* the form is not in use
GuiIdle ==
    /\ dict_vars = <<>> /\ length_entry = <<>> /\ position_inputs = <<>>
    /\ aggregate_entries = <<>> /\ result_text = <<>>
    /\ messagebox = "none" /\ raised = "none" /\ last_call = "none"

(***************************************************************************)
(* word_matches on every word of a dictionary, called again after each     *)
(* constraint added to the request                                         *)
(***************************************************************************)
\* the loaded list that holds every word once
Dictionary == SeqOfSet({<<w, "animal">> : w \in Words \ {<<>>}})

\* the words of the target length, the empty word included
Candidates(len) == {w \in Words : Len(w) = len}

Rematch ==
    /\ NumConstraints(Req) < MaxConstraints
    /\ matched' = [w \in DOMAIN matched |-> word_matches(w, Req')]
    /\ found' = filter_words(words, length, Req')
    /\ UNCHANGED <<words, length, decompVars, guiVars>>

AddSpecific == AddSpecificReq /\ Rematch
AddAmbiguous == AddAmbiguousReq /\ Rematch
AddExclude == AddExcludeReq /\ Rematch
AddExactChar == AddExactCharReq /\ Rematch
AddAmbiguousChar == AddAmbiguousCharReq /\ Rematch
AddNonExistChar == AddNonExistCharReq /\ Rematch

MatchNext ==
    \/ AddSpecific
    \/ AddAmbiguous
    \/ AddExclude
    \/ AddExactChar
    \/ AddAmbiguousChar
    \/ AddNonExistChar

MatchInit ==
    /\ words = Dictionary
    /\ length \in 0..MaxWordLen
    /\ IsRequest(EmptyRequest)
    /\ matched = [w \in Candidates(length) |-> word_matches(w, EmptyRequest)]
    /\ found = filter_words(words, length, EmptyRequest)
    /\ py_list = <<>> /\ pending = {} /\ visited = <<>> /\ results = <<>>
    /\ pc = "idle"
    /\ GuiIdle

SpecMatch == MatchInit /\ [][MatchNext]_vars

(***************************************************************************)
(* The filtering on a word list                                            *)
(***************************************************************************)
Labels == {"animal"}
Entries == {<<w, t>> : w \in Words \ {<<>>}, t \in Labels}
WordLists == UNION {[1..n -> Entries] : n \in 0..MaxWords}
Lengths == (-1)..MaxWordLen

FilterInit ==
    /\ words \in WordLists
    /\ length \in Lengths
    /\ \E req \in FilterRequests : IsRequest(req)
    /\ found = NotRun
    /\ py_list = <<>> /\ pending = {} /\ visited = <<>> /\ results = <<>>
    /\ pc = "idle"
    /\ matched = <<>>
    /\ GuiIdle

\* lines 282, 333-336
RunFilter ==
    /\ found = NotRun
    /\ found' = filter_words(words, length, Req)
    /\ UNCHANGED <<words, length, reqVars, matchVars, decompVars, guiVars>>

FilterNext == RunFilter

SpecFilter == FilterInit /\ [][FilterNext]_vars

(***************************************************************************)
(* GuessGameGUI                                                            *)
(***************************************************************************)
UpperCase == <<"A","B","C","D","E","F","G","H","I","J","K","L","M",
               "N","O","P","Q","R","S","T","U","V","W","X","Y","Z">>
LowerCase == <<"a","b","c","d","e","f","g","h","i","j","k","l","m",
               "n","o","p","q","r","s","t","u","v","w","x","y","z">>
DecimalDigits == <<"0","1","2","3","4","5","6","7","8","9">>

\* str.lower
Lower(t) ==
    [k \in 1..Len(t) |->
        IF \E j \in 1..Len(UpperCase) : UpperCase[j] = t[k]
        THEN LowerCase[CHOOSE j \in 1..Len(UpperCase) : UpperCase[j] = t[k]]
        ELSE t[k]]

\* str.strip
RECURSIVE Strip(_)
Strip(t) ==
    IF t = <<>> THEN t
    ELSE IF t[1] = " " THEN Strip(Tail(t))
    ELSE IF t[Len(t)] = " " THEN Strip(SubSeq(t, 1, Len(t) - 1))
    ELSE t

\* str.split(","): the pieces between the commas, empty ones included
RECURSIVE SplitComma(_, _)
SplitComma(t, piece) ==
    IF t = <<>> THEN <<piece>>
    ELSE IF t[1] = "," THEN <<piece>> \o SplitComma(Tail(t), <<>>)
    ELSE SplitComma(Tail(t), Append(piece, t[1]))

\* set(x.strip() for x in text.split(",") if x.strip())
ValueSet(t) ==
    LET pieces == SplitComma(t, <<>>)
    IN  {Strip(pieces[k]) : k \in 1..Len(pieces)} \ {<<>>}

RECURSIVE DigitsValue(_, _)
DigitsValue(t, acc) ==
    IF t = <<>> THEN acc
    ELSE DigitsValue(Tail(t),
            10 * acc + (CHOOSE d \in 0..9 : DecimalDigits[d + 1] = t[1]))

\* int(text): surrounding blanks and one sign are accepted, then digits
\* only; anything else is a ValueError
ParseInt(text) ==
    LET t      == Strip(text)
        signed == t # <<>> /\ t[1] \in {"-", "+"}
        digits == IF signed THEN Tail(t) ELSE t
    IN  IF digits = <<>> \/ \E k \in 1..Len(digits) :
                                digits[k] \notin Range(DecimalDigits)
        THEN [ok |-> FALSE, value |-> 0]
        ELSE [ok |-> TRUE,
              value |-> IF signed /\ t[1] = "-"
                        THEN 0 - DigitsValue(digits, 0)
                        ELSE DigitsValue(digits, 0)]

\* lines 123-136: the dictionary files in the order of dict_options, and the
\* name each is shown under
dict_files == <<"THUOCL_diming.txt", "wiki.txt">>

dict_options(file) ==
    CASE file = "THUOCL_diming.txt" -> "diming"
      [] file = "wiki.txt"          -> "wiki"

\* the files on disk: the lines of each, a line being its blank-separated
\* tokens; wiki.txt is not there
file_exists(file) == file = "THUOCL_diming.txt"

file_lines(file) ==
    CASE file = "THUOCL_diming.txt" ->
            << << <<"zhong","de">>, <<"9">> >>,
               <<>>,
               << <<"de">> >>,
               << <<"zhong">>, <<"3">> >> >>
      [] OTHER -> <<>>

\* lines 260-266: the pairs one file contributes
words_of_file(file) ==
    LET lines == SelectSeq(file_lines(file), LAMBDA parts : parts # <<>>)
    IN  [k \in 1..Len(lines) |-> <<lines[k][1], dict_options(file)>>]

\* lines 251-267, over the selected files from the k-th on
RECURSIVE load_from(_, _)
load_from(selected, k) ==
    IF k > Len(selected) THEN <<>>
    ELSE (IF file_exists(selected[k]) THEN words_of_file(selected[k])
          ELSE <<>>) \o load_from(selected, k + 1)

\* line 251
selected_files(dv) == SelectSeq(dict_files, LAMBDA file : dv[file])

\* lines 249-267: the list returned
load_selected_words(dv) == load_from(selected_files(dv), 1)

\* lines 288-299: the pattern of one row, or no pattern at all
row_pattern(inputs) ==
    LET initial == Lower(Strip(inputs.initial))
        final   == Lower(Strip(inputs.final))
        tone    == Strip(inputs.tone)
    IN  (IF initial # <<>> THEN ("initial" :> initial) ELSE <<>>)
            @@ (IF final # <<>> THEN ("final" :> final) ELSE <<>>)
            @@ (IF tone # <<>> THEN ("tone" :> tone) ELSE <<>>)

RECURSIVE rows_to_reqs(_, _, _)
\* lines 285-302: specific_reqs and exact_char_reqs after the rows from the
\* k-th on were visited
rows_to_reqs(rows, k, acc) ==
    IF k > Len(rows) THEN acc
    ELSE LET pattern == row_pattern(rows[k])
             exact   == Strip(rows[k].exact)
         IN  rows_to_reqs(rows, k + 1,
                [specific |-> IF pattern # <<>>
                              THEN ((k - 1) :> pattern) @@ acc.specific
                              ELSE acc.specific,
                 exact    |-> IF exact # <<>>
                              THEN ((k - 1) :> exact[1]) @@ acc.exact
                              ELSE acc.exact])

\* lines 285-330: the request search_words builds from the form
gui_request(rows, agg) ==
    LET r == rows_to_reqs(rows, 1, [specific |-> <<>>, exact |-> <<>>])
    IN  Request(r.specific,
                [initial |-> ValueSet(Lower(Strip(agg.amb_initial))),
                 final   |-> ValueSet(Lower(Strip(agg.amb_final))),
                 tone    |-> ValueSet(Strip(agg.amb_tone))],
                [initial |-> ValueSet(Lower(Strip(agg.exc_initial))),
                 final   |-> ValueSet(Lower(Strip(agg.exc_final))),
                 tone    |-> ValueSet(Strip(agg.exc_tone))],
                r.exact,
                Range(Strip(agg.amb_chars)),
                Range(Strip(agg.nonexist_chars)))

\* what the result area shows
Cleared == [message |-> "", items |-> <<>>]
NoWordsLoaded == [message |-> "no words loaded", items |-> <<>>]
NoWordMatches == [message |-> "no word matches", items |-> <<>>]
Listing(items) == [message |-> "", items |-> items]

\* the texts a user types into the entries
LengthTexts == {<<>>, <<"x">>, <<"-","1">>, <<"0">>, <<"1">>, <<" ","2">>}

RowFields == {"initial", "final", "tone", "exact"}

RowTexts(field) ==
    CASE field = "initial" -> {<<>>, <<"Z","h">>}
      [] field = "final"   -> {<<>>, <<"o","n","g">>}
      [] field = "tone"    -> {<<>>, <<"2">>}
      [] field = "exact"   -> {<<>>, <<"de">>}

AggregateFields ==
    {"amb_initial", "amb_final", "amb_tone", "exc_initial", "exc_final",
     "exc_tone", "amb_chars", "nonexist_chars"}

AggregateTexts(field) ==
    CASE field = "amb_initial"    -> {<<>>, <<"c","h",","," ","d">>}
      [] field = "amb_final"      -> {<<>>, <<"e">>}
      [] field = "amb_tone"       -> {<<>>, <<"4">>}
      [] field = "exc_initial"    -> {<<>>, <<"z","h",",","c","h">>}
      [] field = "exc_final"      -> {<<>>, <<"i">>}
      [] field = "exc_tone"       -> {<<>>, <<"2">>}
      [] field = "amb_chars"      -> {<<>>, <<"zhong">>}
      [] field = "nonexist_chars" -> {<<>>, <<"de">>}

EmptyRow == [initial |-> <<>>, final |-> <<>>, tone |-> <<>>, exact |-> <<>>]

\* how many entries of the form hold text
Filled ==
    Cardinality({<<k, f>> \in (1..Len(position_inputs)) \X RowFields :
                    position_inputs[k][f] # <<>>})
      + Cardinality({f \in AggregateFields : aggregate_entries[f] # <<>>})

\* lines 118-137, 139-213: the form as create_widgets leaves it
GuiInit ==
    /\ dict_vars = [file \in Range(dict_files) |-> FALSE]
    /\ length_entry = <<>>
    /\ position_inputs = <<>>
    /\ aggregate_entries = [f \in AggregateFields |-> <<>>]
    /\ result_text = Cleared
    /\ messagebox = "none"
    /\ raised = "none"
    /\ last_call = "none"
    /\ py_list = <<>> /\ pending = {} /\ visited = <<>> /\ results = <<>>
    /\ pc = "idle"
    /\ matched = <<>>
    /\ IsRequest(EmptyRequest)
    /\ words = <<>> /\ length = 0 /\ found = NotRun

NotGui == <<decompVars, reqVars, matchVars, filterVars>>

\* the user acted on a widget, no handler ran
UserEdit ==
    /\ messagebox' = "none"
    /\ raised' = "none"
    /\ last_call' = "edit"
    /\ UNCHANGED <<result_text, NotGui>>

\* lines 145-148: a check box is clicked
ToggleDict ==
    /\ \E file \in Range(dict_files) :
        dict_vars' = [dict_vars EXCEPT ![file] = ~@]
    /\ UNCHANGED <<length_entry, position_inputs, aggregate_entries>>
    /\ UserEdit

\* line 154: the word length is typed
TypeLength ==
    /\ \E t \in LengthTexts \ {length_entry} : length_entry' = t
    /\ UNCHANGED <<dict_vars, position_inputs, aggregate_entries>>
    /\ UserEdit

\* lines 231-241: one entry of a generated row is typed into
EditPosition ==
    /\ \E k \in 1..Len(position_inputs), f \in RowFields :
        \E t \in RowTexts(f) \ {position_inputs[k][f]} :
            /\ t # <<>> => Filled < MaxFilled
            /\ position_inputs' = [position_inputs EXCEPT ![k][f] = t]
    /\ UNCHANGED <<dict_vars, length_entry, aggregate_entries>>
    /\ UserEdit

\* lines 168-198: one of the entries below the rows is typed into
EditAggregate ==
    /\ \E f \in AggregateFields :
        \E t \in AggregateTexts(f) \ {aggregate_entries[f]} :
            /\ t # <<>> => Filled < MaxFilled
            /\ aggregate_entries' = [aggregate_entries EXCEPT ![f] = t]
    /\ UNCHANGED <<dict_vars, length_entry, position_inputs>>
    /\ UserEdit

\* lines 215-247
generate_position_inputs ==
    /\ LET n == ParseInt(length_entry) IN
        /\ position_inputs' =
                IF n.ok /\ n.value > 0 THEN [k \in 1..n.value |-> EmptyRow]
                ELSE <<>>
        /\ messagebox' = IF n.ok THEN "none" ELSE "invalid length"
    /\ raised' = "none"
    /\ last_call' = "generate_position_inputs"
    /\ UNCHANGED <<dict_vars, length_entry, aggregate_entries, result_text>>
    /\ UNCHANGED NotGui

\* lines 269-343
search_words ==
    /\ LET loaded  == load_selected_words(dict_vars)
           n       == ParseInt(length_entry)
           res     == filter_words(loaded, n.value,
                          gui_request(position_inputs, aggregate_entries))
       IN  IF loaded = <<>>
           THEN /\ messagebox' = IF selected_files(dict_vars) = <<>>
                                 THEN "no dictionary selected" ELSE "none"
                /\ result_text' = NoWordsLoaded
                /\ raised' = "none"
           ELSE IF ~n.ok
           THEN /\ messagebox' = "invalid length"
                /\ result_text' = result_text
                /\ raised' = "none"
           ELSE IF res.outcome = "IndexError"
           THEN /\ messagebox' = "none"
                /\ result_text' = result_text
                /\ raised' = "IndexError"
           ELSE /\ messagebox' = "none"
                /\ result_text' = IF res.results # <<>>
                                  THEN Listing(res.results)
                                  ELSE NoWordMatches
                /\ raised' = "none"
    /\ last_call' = "search_words"
    /\ UNCHANGED <<dict_vars, length_entry, position_inputs,
                   aggregate_entries>>
    /\ UNCHANGED NotGui

\* lines 345-368
reset_all ==
    /\ dict_vars' = [file \in Range(dict_files) |-> FALSE]
    /\ length_entry' = <<>>
    /\ position_inputs' = <<>>
    /\ aggregate_entries' = [f \in AggregateFields |-> <<>>]
    /\ result_text' = Cleared
    /\ messagebox' = "none"
    /\ raised' = "none"
    /\ last_call' = "reset_all"
    /\ UNCHANGED NotGui

GuiNext ==
    \/ ToggleDict
    \/ TypeLength
    \/ EditPosition
    \/ EditAggregate
    \/ generate_position_inputs
    \/ search_words
    \/ reset_all

SpecGui == GuiInit /\ [][GuiNext]_vars

(***************************************************************************)
(* get_pronunciations on a transcription list                              *)
(***************************************************************************)
SpecDecomp == DecompInit /\ [][DecompNext]_vars

(***************************************************************************)
(* Claims                                                                  *)
(***************************************************************************)
\* the assignments of one reading per position, each from the position's
\* retained candidates
Assignments(poss) ==
    {a \in [1..Len(poss) -> UNION {Range(poss[k]) : k \in 1..Len(poss)}] :
        \A k \in 1..Len(poss) : a[k] \in Range(poss[k])}

CarriesExcluded(p, exc) == \E f \in Fields : p[f] \in GetSet(exc, f)

NoneExcluded(a, exc) == \A k \in 1..Len(a) : ~CarriesExcluded(a[k], exc)

MustExistWitnessed(a, amb) ==
    \A f \in Fields : \A v \in GetSet(amb, f) :
        \E k \in 1..Len(a) : a[k][f] = v

\* C1: the backtracking search of word_matches succeeds exactly when some
\* assignment of one retained reading per position carries no must-exclude
\* value and witnesses every must-exist value.
C1_SearchIsExhaustive ==
    \A w \in DOMAIN matched :
        phonetic_ok(w, Req) <=>
            \E a \in Assignments(possibilities(w, specific_reqs)) :
                /\ NoneExcluded(a, exclude_reqs)
                /\ MustExistWitnessed(a, ambiguous_reqs)

\* C1 witness: a word is accepted although an assignment carrying no
\* excluded value fails the must-exist check.
C1_Witness ==
    \E w \in DOMAIN matched :
        /\ matched[w] = "True"
        /\ ambiguous_reqs # <<>>
        /\ \E a \in Assignments(possibilities(w, specific_reqs)) :
            /\ NoneExcluded(a, exclude_reqs)
            /\ ~MustExistWitnessed(a, ambiguous_reqs)

Returned(res) == IF res.outcome = "ok" THEN Range(res.results) ELSE {}

\* C2: monotonicity.  A step adds one constraint to the request; every pair
\* the filter returns for the larger request it returns for the smaller one.
C2_Monotonic ==
    [][/\ Returned(found') \subseteq Returned(found)
       /\ \A w \in DOMAIN matched :
            matched'[w] = "True" => matched[w] = "True"]_vars

\* C2 witness: a request of two constraints whose match set is neither empty
\* nor what the empty request returns.
C2_Witness ==
    /\ NumConstraints(Req) = 2
    /\ Returned(found) # {}
    /\ Returned(found) # Returned(filter_words(words, length, EmptyRequest))

\* C3: an accepted word has an assignment none of whose readings carries a
\* must-exclude value; a word with a position all of whose candidate
\* readings carry one is not accepted.
C3_ExcludedNeverAccepted ==
    \A w \in DOMAIN matched :
        /\ matched[w] = "True" =>
            \E a \in Assignments(possibilities(w, specific_reqs)) :
                NoneExcluded(a, exclude_reqs)
        /\ (\E k \in 1..Len(w) :
                \A p \in Range(candidates(w, specific_reqs, k - 1)) :
                    CarriesExcluded(p, exclude_reqs))
            => matched[w] # "True"

\* C3 witness: a word rejected only because every reading of one of its
\* characters carries an excluded value.
C3_Witness ==
    \E w \in DOMAIN matched :
        /\ matched[w] = "False"
        /\ \E k \in 1..Len(w) :
            /\ get_pronunciations(w[k]) # <<>>
            /\ \A p \in Range(get_pronunciations(w[k])) :
                CarriesExcluded(p, exclude_reqs)
        /\ word_matches(w, [Req EXCEPT !.exclude_reqs = <<>>]) = "True"

\* C8: a reading is retained for a position exactly when every field the
\* position's pattern sets, the empty tone included, equals the reading's.
C8_SetFieldsMatchExactly ==
    \A w \in DOMAIN matched : \A i \in DOMAIN specific_reqs :
        i < Len(w) =>
            \A p \in Range(get_pronunciations(w[i + 1])) :
                p \in Range(candidates(w, specific_reqs, i))
                    <=> \A f \in DOMAIN specific_reqs[i] :
                            p[f] = specific_reqs[i][f]

Matches(e) == Len(e[1]) = length /\ word_matches(e[1], Req) = "True"

Rejected(e) == Len(e[1]) # length \/ word_matches(e[1], Req) = "False"

C5_LengthExact ==
    found.outcome # "none" =>
        /\ \A k \in 1..Len(found.results) : Len(found.results[k][1]) = length
        /\ \A k \in 1..Len(found.passed) : Len(found.passed[k]) = length

\* C5 witness: a word is returned from a list that also holds a word of
\* another length.
C5_Witness ==
    /\ found.outcome = "ok"
    /\ found.results # <<>>
    /\ \E k \in 1..Len(words) : Len(words[k][1]) # length

NonEmptyVisited == SelectSeq(visited, LAMBDA py : py # <<>>)

\* C7: every reading returned is well formed (a final that is not empty, a
\* tone that is a digit 1..5 or empty, initial and final making up the
\* transcription without its tone) and no two returned readings are equal.
C7_ReadingsWellFormed ==
    /\ Len(results) <= Len(NonEmptyVisited)
    /\ \A k \in 1..Len(results) :
        /\ results[k].final # <<>>
        /\ results[k].tone \in {<<>>} \cup {<<d>> : d \in ToneDigits}
        /\ \E j \in 1..Len(NonEmptyVisited) :
            results[k].initial \o results[k].final \o results[k].tone
                = NonEmptyVisited[j]
        /\ \A j \in 1..Len(results) : j # k => results[j] # results[k]

ListedPrefixes(syllable) ==
    {k \in 1..Len(initials_list) : StartsWith(syllable, initials_list[k])}

\* C9: the initial is the first listed initial that is a prefix of the
\* syllable, which is the longest listed one that is a prefix, or empty
\* when none is; the final is the rest of the syllable.
C9_InitialIsLongestPrefix ==
    /\ Len(results) = Len(NonEmptyVisited)
    /\ \A k \in 1..Len(results) :
        LET syllable == syllable_of(NonEmptyVisited[k])
            listed   == ListedPrefixes(syllable)
            r        == results[k]
        IN  /\ listed = {} => r.initial = <<>>
            /\ listed # {} =>
                /\ r.initial = initials_list[Min(listed)]
                /\ \A j \in listed : Len(initials_list[j]) <= Len(r.initial)
            /\ r.initial \o r.final = syllable

\* C9 witness: zh is taken, not z, and the final is what follows it.
C9_Witness ==
    /\ pc = "returned"
    /\ \E k \in 1..Len(results) :
        /\ results[k].initial = <<"z","h">>
        /\ results[k].final # <<>>

\* a word length that is missing, not an integer, zero or negative
BadLength(text) == ~ParseInt(text).ok \/ ParseInt(text).value <= 0

\* C6: a search with a missing, non-integer, zero or negative word length,
\* and a search with no dictionary selected, ends in an error shown to the
\* user.
C6_BadConfigurationIsAnError ==
    last_call = "search_words" =>
        /\ BadLength(length_entry) => messagebox # "none"
        /\ selected_files(dict_vars) = <<>> => messagebox # "none"

\* C10: every call of word_matches made by search_words has all keys of
\* exact_char_reqs below the length of the word, and no search raises.
C10_SearchNeverRaises ==
    last_call = "search_words" =>
        /\ raised = "none"
        /\ LET req == gui_request(position_inputs, aggregate_entries)
               res == filter_words(load_selected_words(dict_vars),
                                   ParseInt(length_entry).value, req)
           IN  ParseInt(length_entry).ok =>
                \A k \in 1..Len(res.passed) :
                    \A i \in DOMAIN req.exact_char_reqs :
                        i < Len(res.passed[k])

====
